---- MODULE Spec2Model ----
(***************************************************************************)
(* Model of dz11.py: the Field / Name / Phone / Birthday value wrappers,   *)
(* Record, AddressBook and the command-level functions that touch the      *)
(* module-level AddressBook `contacts`.                                    *)
(*                                                                         *)
(* Python strings are sequences of one-character strings.  A Python value  *)
(* is a record [ty, val, date]: ty is "str" or "int" for plain values and  *)
(* the class name for Field instances, val is the text (the `_value`       *)
(* attribute of a Field instance), date is the `date` attribute of a       *)
(* Birthday (NoDate elsewhere).  A call's outcome is a record              *)
(* [kind, tag, text, num, pages]: kind is "return" or "raise", tag is the  *)
(* exception class or the message that was returned.                      *)
(*                                                                         *)
(* Field, Name and Phone define _value, get_value and set_value and no     *)
(* `value`; only Birthday has a `value` property.  Every `x.value` of the  *)
(* source goes through value_getter, which raises AttributeError for any   *)
(* other instance, so a record enters contacts through add_record only    *)
(* when its name object is one that has `value`.                           *)
(*                                                                         *)
(* Callers pass ASCII strings, add each Record to the book once, and call  *)
(* remove_phone with strings.  The order a set of strings is iterated in   *)
(* depends on the hash seed and is chosen nondeterministically.            *)
(***************************************************************************)
EXTENDS Integers, Sequences, FiniteSets, TLC

VARIABLES field, loose, data, last, today, day

vars == <<field, loose, data, last, today, day>>

----------------------------------------------------------------------------
(* Bounds *)

\* most records the address book is filled with
MaxRecords == 2
\* most records the address book is filled with when listing pages
MaxListed == 6
\* number of days the clock advances
MaxDay == 800

----------------------------------------------------------------------------
(* Strings *)

Digits == <<"0", "1", "2", "3", "4", "5", "6", "7", "8", "9">>

DigitChars == {Digits[i] : i \in 1..10}

\* str.isdigit()
isdigit(s) == Len(s) > 0 /\ \A i \in 1..Len(s) : s[i] \in DigitChars

DigitVal(c) == (CHOOSE i \in 1..10 : Digits[i] = c) - 1

\* int(s) of a digit string
RECURSIVE ParseInt(_)
ParseInt(s) ==
    IF Len(s) = 0 THEN 0
    ELSE 10 * ParseInt(SubSeq(s, 1, Len(s) - 1)) + DigitVal(s[Len(s)])

\* n formatted with at least w digits, zero padded
RECURSIVE Pad(_, _)
Pad(n, w) ==
    IF w <= 1 /\ n < 10 THEN <<Digits[n + 1]>>
    ELSE Pad(n \div 10, w - 1) \o <<Digits[(n % 10) + 1]>>

\* sub in s
Contains(s, sub) ==
    \E i \in 1..(Len(s) - Len(sub) + 1) : SubSeq(s, i, i + Len(sub) - 1) = sub

\* sep.join(parts)
RECURSIVE Join(_, _)
Join(sep, parts) ==
    IF Len(parts) = 0 THEN <<>>
    ELSE IF Len(parts) = 1 THEN parts[1]
    ELSE parts[1] \o sep \o Join(sep, Tail(parts))

\* the orders in which a set can be iterated
Orders(S) ==
    {f \in [1..Cardinality(S) -> S] : \A i, j \in 1..Cardinality(S) : f[i] = f[j] => i = j}

----------------------------------------------------------------------------
(* datetime.date *)

NoDate == [year |-> 0, month |-> 0, day |-> 0]

IsLeap(y) == (y % 4 = 0 /\ y % 100 # 0) \/ y % 400 = 0

DaysInMonth(y, m) ==
    IF m = 2 THEN (IF IsLeap(y) THEN 29 ELSE 28)
    ELSE IF m \in {4, 6, 9, 11} THEN 30 ELSE 31

\* date(y, m, d) raises ValueError outside the calendar
ValidDate(y, m, d) ==
    /\ y \in 1..9999
    /\ m \in 1..12
    /\ d \in 1..DaysInMonth(y, m)

MkDate(y, m, d) == [year |-> y, month |-> m, day |-> d]

RECURSIVE DaysBeforeMonth(_, _)
DaysBeforeMonth(y, m) ==
    IF m = 1 THEN 0 ELSE DaysBeforeMonth(y, m - 1) + DaysInMonth(y, m - 1)

\* date.toordinal()
ToOrdinal(d) ==
    LET y == d.year - 1
    IN  y * 365 + (y \div 4) - (y \div 100) + (y \div 400)
        + DaysBeforeMonth(d.year, d.month) + d.day

\* a < b on dates
DateLess(a, b) ==
    \/ a.year < b.year
    \/ a.year = b.year /\ a.month < b.month
    \/ a.year = b.year /\ a.month = b.month /\ a.day < b.day

\* the calendar day after d
NextDay(d) ==
    IF d.day < DaysInMonth(d.year, d.month) THEN MkDate(d.year, d.month, d.day + 1)
    ELSE IF d.month < 12 THEN MkDate(d.year, d.month + 1, 1)
    ELSE MkDate(d.year + 1, 1, 1)

\* str(date): ISO format
FormatDate(d) == Pad(d.year, 4) \o <<"-">> \o Pad(d.month, 2) \o <<"-">> \o Pad(d.day, 2)

\* datetime.datetime.strptime(s, "%Y-%m-%d").date()
strptime(s) ==
    LET hy == {i \in 1..Len(s) : s[i] = "-"}
        i1 == CHOOSE i \in hy : \A j \in hy : i <= j
        i2 == CHOOSE i \in hy : \A j \in hy : j <= i
        ys == SubSeq(s, 1, i1 - 1)
        ms == SubSeq(s, i1 + 1, i2 - 1)
        ds == SubSeq(s, i2 + 1, Len(s))
        shaped == /\ Cardinality(hy) = 2
                  /\ Len(ys) = 4 /\ isdigit(ys)
                  /\ Len(ms) \in 1..2 /\ isdigit(ms)
                  /\ Len(ds) \in 1..2 /\ isdigit(ds)
    IN  IF shaped /\ ValidDate(ParseInt(ys), ParseInt(ms), ParseInt(ds))
        THEN [ok |-> TRUE, date |-> MkDate(ParseInt(ys), ParseInt(ms), ParseInt(ds))]
        ELSE [ok |-> FALSE, date |-> NoDate]

\* date.fromisoformat(s) of a YYYY-MM-DD string
fromisoformat(s) ==
    LET shaped == /\ Len(s) = 10
                  /\ s[5] = "-" /\ s[8] = "-"
                  /\ isdigit(SubSeq(s, 1, 4))
                  /\ isdigit(SubSeq(s, 6, 7))
                  /\ isdigit(SubSeq(s, 9, 10))
        y == ParseInt(SubSeq(s, 1, 4))
        m == ParseInt(SubSeq(s, 6, 7))
        d == ParseInt(SubSeq(s, 9, 10))
    IN  IF shaped /\ ValidDate(y, m, d)
        THEN [ok |-> TRUE, date |-> MkDate(y, m, d)]
        ELSE [ok |-> FALSE, date |-> NoDate]

----------------------------------------------------------------------------
(* Outcomes of calls *)

Outcome(kind, tag, text, num, pages) ==
    [kind |-> kind, tag |-> tag, text |-> text, num |-> num, pages |-> pages]

Return(tag) == Outcome("return", tag, <<>>, 0, <<>>)

Raise(exc) == Outcome("raise", exc, <<>>, 0, <<>>)

NoCall == [op |-> "none", arg |-> <<>>, res |-> Return("None"), rep |-> FALSE]

\* the record of a call
Call(op, arg, res) == [op |-> op, arg |-> arg, res |-> res, rep |-> FALSE]

\* the record of a call that is told from its repetition: rep tells that
\* the call before it was the same call
CallAgain(op, arg, res) ==
    [op |-> op, arg |-> arg, res |-> res, rep |-> last.op = op /\ last.arg = arg]

----------------------------------------------------------------------------
(* Python values and the Field classes *)

PyStr(s) == [ty |-> "str", val |-> s, date |-> NoDate]

PyInt(s) == [ty |-> "int", val |-> s, date |-> NoDate]

NoField == [ty |-> "none", val |-> <<>>, date |-> NoDate]

FieldClasses == {"Name", "Phone", "Birthday"}

\* Field.__init__, Name(value)
Field_init(cls, value) ==
    IF value.ty # "str"
    THEN [res |-> Raise("ValueError"), obj |-> NoField]
    ELSE [res |-> Return("None"), obj |-> [ty |-> cls, val |-> value.val, date |-> NoDate]]

\* Phone(value)
Phone_init(value) ==
    LET base == Field_init("Phone", value)
    IN  IF base.res.kind = "raise" THEN base
        ELSE IF ~isdigit(value.val)
        THEN [res |-> Raise("ValueError"), obj |-> NoField]
        ELSE base

\* Birthday(value): the second __init__ replaces the first
Birthday_init(value) ==
    LET base == Field_init("Birthday", value)
        parsed == strptime(value.val)
    IN  IF base.res.kind = "raise" THEN base
        ELSE IF ~parsed.ok
        THEN [res |-> Raise("ValueError"), obj |-> NoField]
        ELSE [res |-> Return("None"), obj |-> [base.obj EXCEPT !.date = parsed.date]]

\* cls(value)
Construct(cls, value) ==
    IF cls = "Phone" THEN Phone_init(value)
    ELSE IF cls = "Birthday" THEN Birthday_init(value)
    ELSE Field_init(cls, value)

\* Field.set_value, inherited unchanged by Name, Phone and Birthday
set_value(obj, value) ==
    IF value.ty # "str"
    THEN [res |-> Raise("ValueError"), obj |-> obj]
    ELSE [res |-> Return("None"), obj |-> [obj EXCEPT !.val = value.val]]

\* obj.value = value of a Birthday (the property's setter)
value_setter(obj, value) ==
    LET parsed == strptime(value.val)
    IN  IF value.ty # "str" THEN [res |-> Raise("TypeError"), obj |-> obj]
        ELSE IF ~parsed.ok THEN [res |-> Raise("ValueError"), obj |-> obj]
        ELSE [res |-> Return("None"), obj |-> [obj EXCEPT !.date = parsed.date]]

\* obj.value: only Birthday defines the property
value_getter(obj) ==
    IF obj.ty = "Birthday"
    THEN [res |-> Return("str"), val |-> FormatDate(obj.date)]
    ELSE [res |-> Raise("AttributeError"), val |-> <<>>]

\* str(obj)
Field_str(obj) ==
    IF obj.ty = "Birthday" THEN FormatDate(obj.date) ELSE obj.val

----------------------------------------------------------------------------
(* Record *)

NoRecord == [name |-> NoField, phones |-> {}, birthday |-> NoDate]

\* Record(name, phone, birthday); phone and birthday are <<>> for None
Record_init(name, phone, birthday, now) ==
    LET pv == value_getter(phone[1])
        bv == value_getter(birthday[1])
        parsed == fromisoformat(bv.val)
        phones == IF phone # <<>> THEN {pv.val} ELSE {}
    IN  IF phone # <<>> /\ pv.res.kind = "raise"
        THEN [res |-> pv.res, rec |-> NoRecord]
        ELSE IF birthday = <<>>
        THEN [res |-> Return("None"),
              rec |-> [name |-> name, phones |-> phones, birthday |-> NoDate]]
        ELSE IF bv.res.kind = "raise"
        THEN [res |-> bv.res, rec |-> NoRecord]
        ELSE IF ~parsed.ok \/ parsed.date.year < 1900 \/ parsed.date.year > now.year
        THEN [res |-> Raise("ValueError"), rec |-> NoRecord]
        ELSE [res |-> Return("None"),
              rec |-> [name |-> name, phones |-> phones, birthday |-> parsed.date]]

\* days_to_birthday comparing with <= : a birthday that is today counts
\* as past
days_to_birthday_past(rec, now) ==
    LET m == rec.birthday.month
        d == rec.birthday.day
        this == MkDate(now.year, m, d)
        next == MkDate(now.year + 1, m, d)
    IN  IF rec.birthday = NoDate THEN Return("None")
        ELSE IF ~ValidDate(now.year, m, d) THEN Raise("ValueError")
        ELSE IF DateLess(this, now) \/ this = now
        THEN IF ~ValidDate(now.year + 1, m, d) THEN Raise("ValueError")
             ELSE Outcome("return", "int", <<>>, ToOrdinal(next) - ToOrdinal(now), <<>>)
        ELSE Outcome("return", "int", <<>>, ToOrdinal(this) - ToOrdinal(now), <<>>)

\* Record.days_to_birthday with date.today() = now
days_to_birthday(rec, now) ==
    LET m == rec.birthday.month
        d == rec.birthday.day
        this == MkDate(now.year, m, d)
        next == MkDate(now.year + 1, m, d)
    IN  IF rec.birthday = NoDate THEN Return("None")
        ELSE IF ~ValidDate(now.year, m, d) THEN Raise("ValueError")
        ELSE IF DateLess(this, now)
        THEN IF ~ValidDate(now.year + 1, m, d) THEN Raise("ValueError")
             ELSE Outcome("return", "int", <<>>, ToOrdinal(next) - ToOrdinal(now), <<>>)
        ELSE Outcome("return", "int", <<>>, ToOrdinal(this) - ToOrdinal(now), <<>>)

\* add_phone that takes the phone out when the set has it
Record_add_phone_toggle(rec, phone_number) ==
    LET made == IF phone_number.ty # "Phone" THEN Phone_init(phone_number)
                ELSE [res |-> Return("None"), obj |-> phone_number]
    IN  IF made.res.kind = "raise" THEN [res |-> made.res, rec |-> rec]
        ELSE [res |-> Return("added"),
              rec |-> [rec EXCEPT !.phones =
                          IF made.obj.val \in @ THEN @ \ {made.obj.val}
                          ELSE @ \cup {made.obj.val}]]

\* Record.add_phone
Record_add_phone(rec, phone_number) ==
    LET made == IF phone_number.ty # "Phone" THEN Phone_init(phone_number)
                ELSE [res |-> Return("None"), obj |-> phone_number]
        got == value_getter(made.obj)
    IN  IF made.res.kind = "raise" THEN [res |-> made.res, rec |-> rec]
        ELSE IF got.res.kind = "raise" THEN [res |-> got.res, rec |-> rec]
        ELSE [res |-> Return("added"),
              rec |-> [rec EXCEPT !.phones = @ \cup {got.val}]]

\* remove_phone that does not look whether the phone is there
Record_remove_phone_discard(rec, phone_number) ==
    [res |-> Return("removed"), rec |-> [rec EXCEPT !.phones = @ \ {phone_number}]]

\* Record.remove_phone
Record_remove_phone(rec, phone_number) ==
    IF phone_number \in rec.phones
    THEN [res |-> Return("removed"),
          rec |-> [rec EXCEPT !.phones = @ \ {phone_number}]]
    ELSE [res |-> Return("notfound"), rec |-> rec]

\* Record.edit_phone; first is the phone the iteration of the set starts with
Record_edit_phone(rec, old_phone_number, new_phone_number, first) ==
    LET made == Phone_init(new_phone_number)
        got == value_getter(made.obj)
    IN  IF rec.phones = {} THEN [res |-> Return("None"), rec |-> rec]
        ELSE IF first = old_phone_number
        THEN IF made.res.kind = "raise" THEN [res |-> made.res, rec |-> rec]
             ELSE IF got.res.kind = "raise" THEN [res |-> got.res, rec |-> rec]
             ELSE [res |-> Return("updated"),
                   rec |-> [rec EXCEPT !.phones = @ \cup {got.val}]]
        ELSE [res |-> Return("notfound"), rec |-> rec]

\* Record.__str__; order is the order the set of phones is iterated in
Record_str(rec, order) ==
    <<"N", "a", "m", "e", ":", " ">> \o Field_str(rec.name)
    \o <<"\n", "P", "h", "o", "n", "e", "s", ":", "\n">> \o Join(<<",">>, order)

----------------------------------------------------------------------------
(* AddressBook: data is the dict in insertion order, a sequence of          *)
(* [key, rec]                                                               *)

\* AddressBook.__init__
page_size == 5

Keys(d) == {d[i].key : i \in 1..Len(d)}

IndexOf(d, key) == CHOOSE i \in 1..Len(d) : d[i].key = key

\* self.data[key] = rec
SetItem(d, key, rec) ==
    IF key \in Keys(d)
    THEN [d EXCEPT ![IndexOf(d, key)].rec = rec]
    ELSE Append(d, [key |-> key, rec |-> rec])

\* del self.data[key]
DelItem(d, key) ==
    LET i == IndexOf(d, key)
    IN  SubSeq(d, 1, i - 1) \o SubSeq(d, i + 1, Len(d))

\* AddressBook.add_record
add_record(d, record) ==
    LET got == value_getter(record.name)
    IN  IF got.res.kind = "raise" THEN [res |-> got.res, data |-> d]
        ELSE [res |-> Return("added"), data |-> SetItem(d, got.val, record)]

\* AddressBook.remove_record
remove_record(d, name) ==
    IF name \in Keys(d)
    THEN [res |-> Return("removed"), data |-> DelItem(d, name)]
    ELSE [res |-> Return("notfound"), data |-> d]

\* AddressBook.find_record
find_record(d, name, order) ==
    IF name \in Keys(d)
    THEN Outcome("return", "str", Record_str(d[IndexOf(d, name)].rec, order), 0, <<>>)
    ELSE Return("notfound")

\* show_all that stops before a page that is not full
RECURSIVE show_all_loop_full(_, _, _)
show_all_loop_full(records, curent_index, orders) ==
    IF curent_index + page_size <= Len(records)
    THEN <<[k \in 1..page_size |->
               Record_str(records[curent_index + k], orders[curent_index + k])]>>
         \o show_all_loop_full(records, curent_index + page_size, orders)
    ELSE <<>>

\* the while loop of AddressBook.show_all over the snapshot records: the
\* strings it yields, grouped by iteration
RECURSIVE show_all_loop(_, _, _)
show_all_loop(records, curent_index, orders) ==
    IF curent_index < Len(records)
    THEN LET page_records ==
                 [k \in 1..(IF curent_index + page_size <= Len(records)
                            THEN page_size ELSE Len(records) - curent_index) |->
                     curent_index + k]
         IN  <<[k \in 1..Len(page_records) |->
                   Record_str(records[page_records[k]], orders[page_records[k]])]>>
             \o show_all_loop(records, curent_index + page_size, orders)
    ELSE <<>>

\* AddressBook.show_all run to exhaustion
show_all(d, orders) ==
    show_all_loop([i \in 1..Len(d) |-> d[i].rec], 0, orders)

----------------------------------------------------------------------------
(* Command level functions on contacts *)

\* add_phone(name, phone_number)
cmd_add_phone(d, name, phone_number) ==
    IF name \notin Keys(d) THEN [res |-> Return("notfound"), data |-> d]
    ELSE [res |-> Return("added"),
          data |-> [d EXCEPT ![IndexOf(d, name)].rec.phones = @ \cup {phone_number}]]

\* change(name, old_phone, new_phone)
cmd_change(d, arg0, old_phone, new_phone) ==
    LET name == Field_init("Name", PyStr(arg0))
        got == value_getter(name.obj)
        i == IndexOf(d, got.val)
    IN  IF name.res.kind = "raise" THEN [res |-> name.res, data |-> d]
        ELSE IF got.res.kind = "raise" THEN [res |-> got.res, data |-> d]
        ELSE IF got.val \notin Keys(d) THEN [res |-> Return("notfound"), data |-> d]
        ELSE IF old_phone \notin d[i].rec.phones
        THEN [res |-> Return("phone notfound"), data |-> d]
        ELSE IF new_phone \in d[i].rec.phones
        THEN [res |-> Return("already"), data |-> d]
        ELSE [res |-> Return("updated"),
              data |-> [d EXCEPT ![i].rec.phones = (@ \ {old_phone}) \cup {new_phone}]]

----------------------------------------------------------------------------
(* Inputs *)

D1 == <<"2", "0", "0", "0", "-", "0", "1", "-", "0", "2">>

D2 == <<"1", "9", "9", "9", "-", "1", "2", "-", "3", "1">>

StartDay == MkDate(2023, 12, 25)

\* the instances cls(raw) that construct without raising
Made(cls, raws) ==
    {Construct(cls, PyStr(r)).obj :
        r \in {q \in raws : Construct(cls, PyStr(q)).res.kind = "return"}}

NameStrs == {<<"A">>}

PhoneStrs == {<<"1">>, <<"2", "2">>, <<"a">>}

\* the phones edit_phone and change are asked to put in
NewPhoneStrs == {<<"2", "2">>, <<"a">>}

KeyStrs == {D1, D2} \cup NameStrs

\* what callers pass as the name of a Record
NameArgs == Made("Name", NameStrs) \cup Made("Birthday", {D1, D2})

\* what callers pass as the phone of a Record
PhoneArgs == {<<>>} \cup {<<p>> : p \in Made("Phone", PhoneStrs)}

\* what callers pass to Record.add_phone
AddPhoneArgs == {PyStr(p) : p \in PhoneStrs} \cup Made("Phone", PhoneStrs)

----------------------------------------------------------------------------
(* The address book `contacts` and the records callers hold                 *)
(*   data   the dict of contacts                                            *)
(*   loose  <<r>> for a constructed Record r that is not in contacts, or    *)
(*          <<>>                                                            *)
(*   last   the latest call and its outcome                                 *)
(* A record is addressed by 0 (the loose one) or its position in data.      *)

Targets == (IF loose = <<>> THEN {} ELSE {0}) \cup (1..Len(data))

RecAt(t) == IF t = 0 THEN loose[1] ELSE data[t].rec

Store(t, rec) ==
    /\ loose' = IF t = 0 THEN <<rec>> ELSE loose
    /\ data' = IF t = 0 THEN data ELSE [data EXCEPT ![t].rec = rec]

Init ==
    /\ field = NoField
    /\ loose = <<>>
    /\ data = <<>>
    /\ last = NoCall
    /\ today = StartDay
    /\ day = 0

NewRecordOf(name, phone, birthday) ==
    LET out == Record_init(name, phone, birthday, today)
    IN  /\ loose' = IF out.res.kind = "return" THEN <<out.rec>> ELSE loose
        /\ last' = Call("Record", <<>>, out.res)
        /\ UNCHANGED <<field, data, today, day>>

NewRecord ==
    \E name \in NameArgs, phone \in PhoneArgs : NewRecordOf(name, phone, <<>>)

AddRecordTo(cap) ==
    /\ loose # <<>>
    /\ Len(data) < cap
    /\ LET out == add_record(data, loose[1])
       IN  /\ data' = out.data
           /\ loose' = IF out.res.kind = "return" THEN <<>> ELSE loose
           /\ last' = Call("add_record", <<Field_str(loose[1].name)>>, out.res)
    /\ UNCHANGED <<field, today, day>>

AddRecord == AddRecordTo(MaxRecords)

RemoveRecordOf(names) ==
    \E name \in names :
        LET out == remove_record(data, name)
        IN  /\ data' = out.data
            /\ last' = Call("remove_record", <<name>>, out.res)
            /\ UNCHANGED <<field, loose, today, day>>

RemoveRecord == RemoveRecordOf(KeyStrs)

FindRecord ==
    \E name \in KeyStrs :
        \E order \in (IF name \in Keys(data)
                      THEN Orders(data[IndexOf(data, name)].rec.phones) ELSE {<<>>}) :
            /\ last' = Call("find_record", <<name>>, find_record(data, name, order))
            /\ UNCHANGED <<field, loose, data, today, day>>

AddPhone ==
    \E t \in Targets, p \in AddPhoneArgs :
        LET out == Record_add_phone(RecAt(t), p)
        IN  /\ Store(t, out.rec)
            /\ last' = CallAgain("add_phone", <<t, p.ty, p.val>>, out.res)
            /\ UNCHANGED <<field, today, day>>

RemovePhone ==
    \E t \in Targets, p \in PhoneStrs :
        LET out == Record_remove_phone(RecAt(t), p)
        IN  /\ Store(t, out.rec)
            /\ last' = Call("remove_phone", <<t, p>>, out.res)
            /\ UNCHANGED <<field, today, day>>

EditPhone ==
    \E t \in Targets, old \in PhoneStrs, new \in NewPhoneStrs :
        \E first \in (IF RecAt(t).phones = {} THEN {<<>>} ELSE RecAt(t).phones) :
            LET out == Record_edit_phone(RecAt(t), old, PyStr(new), first)
            IN  /\ Store(t, out.rec)
                /\ last' = Call("edit_phone", <<t, old, new>>, out.res)
                /\ UNCHANGED <<field, today, day>>

CmdAddPhone ==
    \E name \in KeyStrs, p \in PhoneStrs :
        LET out == cmd_add_phone(data, name, p)
        IN  /\ data' = out.data
            /\ last' = Call("cmd add_phone", <<>>, out.res)
            /\ UNCHANGED <<field, loose, today, day>>

CmdChange ==
    \E name \in KeyStrs, old \in PhoneStrs, new \in NewPhoneStrs :
        LET out == cmd_change(data, name, old, new)
        IN  /\ data' = out.data
            /\ last' = Call("cmd change", <<>>, out.res)
            /\ UNCHANGED <<field, loose, today, day>>

\* record.name.set_value(value)
NameSetValue ==
    \E t \in Targets, value \in {PyStr(<<"B">>), PyInt(<<"7">>)} :
        LET out == set_value(RecAt(t).name, value)
        IN  /\ Store(t, [RecAt(t) EXCEPT !.name = out.obj])
            /\ last' = Call("name.set_value", <<t, value.val>>, out.res)
            /\ UNCHANGED <<field, today, day>>

\* record.name.value = value, for a name that has the property
NameValueSetter ==
    \E t \in Targets, value \in {PyStr(D1), PyStr(D2), PyStr(<<"B">>)} :
        /\ RecAt(t).name.ty = "Birthday"
        /\ LET out == value_setter(RecAt(t).name, value)
           IN  /\ Store(t, [RecAt(t) EXCEPT !.name = out.obj])
               /\ last' = Call("name.value", <<t, value.val>>, out.res)
               /\ UNCHANGED <<field, today, day>>

\* records and their phones
Next ==
    \/ NewRecord
    \/ AddRecord
    \/ AddPhone
    \/ EditPhone
    \/ CmdAddPhone
    \/ CmdChange

Spec == Init /\ [][Next]_vars

\* removing records and phones
NextRemove ==
    \/ NewRecord
    \/ AddRecord
    \/ CmdAddPhone
    \/ RemoveRecord
    \/ RemovePhone

SpecRemove == Init /\ [][NextRemove]_vars

\* the address book and the names of its records
NextBook ==
    \/ NewRecord
    \/ AddRecord
    \/ RemoveRecord
    \/ FindRecord
    \/ NameSetValue
    \/ NameValueSetter

SpecBook == Init /\ [][NextBook]_vars

----------------------------------------------------------------------------
(* One Field instance: field is the instance a caller holds *)

D3 == <<"2", "0", "0", "0", "-", "1", "-", "2">>

D4 == <<"2", "0", "0", "1", "-", "0", "2", "-", "2", "9">>

FieldValues ==
    {PyStr(<<"1">>), PyStr(<<"2", "2">>), PyStr(<<"a">>), PyStr(<<>>),
     PyStr(D1), PyStr(D3), PyStr(D4), PyInt(<<"7">>)}

FieldConstruct ==
    \E cls \in FieldClasses, value \in FieldValues :
        LET out == Construct(cls, value)
        IN  /\ field' = IF out.res.kind = "return" THEN out.obj ELSE field
            /\ last' = Call(cls, <<value.ty, value.val>>, out.res)
            /\ UNCHANGED <<loose, data, today, day>>

FieldSetValue ==
    \E value \in FieldValues :
        /\ field # NoField
        /\ LET out == set_value(field, value)
           IN  /\ field' = out.obj
               /\ last' = Call("set_value", <<value.ty, value.val>>, out.res)
               /\ UNCHANGED <<loose, data, today, day>>

FieldValueSetter ==
    \E value \in FieldValues :
        /\ field.ty = "Birthday"
        /\ LET out == value_setter(field, value)
           IN  /\ field' = out.obj
               /\ last' = Call("value", <<value.ty, value.val>>, out.res)
               /\ UNCHANGED <<loose, data, today, day>>

NextField ==
    \/ FieldConstruct
    \/ FieldSetValue
    \/ FieldValueSetter

SpecField == Init /\ [][NextField]_vars

----------------------------------------------------------------------------
(* Listing the address book *)

\* the names of the contacts that are listed
ListedNames == {FormatDate(MkDate(2000, 1, k)) : k \in 1..MaxListed}

\* contacts.add_record(Record(name))
ListAddRecord ==
    \E name \in Made("Birthday", ListedNames) :
        LET made == Record_init(name, <<>>, <<>>, today)
            out == add_record(data, made.rec)
        IN  /\ Len(data) < MaxListed
            /\ data' = out.data
            /\ last' = Call("add_record", <<>>, out.res)
            /\ UNCHANGED <<field, loose, today, day>>

ListRemoveRecord ==
    \E name \in ListedNames :
        LET out == remove_record(data, name)
        IN  /\ data' = out.data
            /\ last' = Call("remove_record", <<>>, out.res)
            /\ UNCHANGED <<field, loose, today, day>>

\* the orders in which the phones of each record of d can be iterated
OrdersOf(d) ==
    {f \in [1..Len(d) -> UNION {Orders(d[i].rec.phones) : i \in 1..Len(d)}] :
        \A i \in 1..Len(d) : f[i] \in Orders(d[i].rec.phones)}

\* list(contacts.show_all())
ShowAll ==
    \E orders \in OrdersOf(data) :
        /\ last' = Call("show_all", <<>>,
                        Outcome("return", "generator", <<>>, 0, show_all(data, orders)))
        /\ UNCHANGED <<field, loose, data, today, day>>

NextList ==
    \/ ListAddRecord
    \/ ListRemoveRecord
    \/ ShowAll

SpecList == Init /\ [][NextList]_vars

----------------------------------------------------------------------------
(* Birthdays: today is date.today(), day counts the days since StartDay *)

B1 == <<"2", "0", "0", "0", "-", "0", "2", "-", "2", "9">>

B2 == <<"1", "9", "9", "6", "-", "1", "2", "-", "3", "0">>

B3 == <<"2", "0", "2", "3", "-", "0", "2", "-", "2", "8">>

B4 == <<"1", "9", "8", "0", "-", "0", "3", "-", "0", "1">>

B5 == <<"1", "8", "9", "9", "-", "1", "2", "-", "3", "1">>

B6 == <<"2", "0", "2", "5", "-", "0", "1", "-", "0", "1">>

BirthdayArgs == {<<>>} \cup {<<b>> : b \in Made("Birthday", {D1, D2, B1, B2, B3, B4, B5, B6})}

Tick ==
    /\ day < MaxDay
    /\ day' = day + 1
    /\ today' = NextDay(today)
    /\ last' = Call("tick", <<>>, Return("None"))
    /\ UNCHANGED <<field, loose, data>>

NewBirthdayRecord ==
    \E name \in Made("Name", NameStrs), birthday \in BirthdayArgs :
        NewRecordOf(name, <<>>, birthday)

DaysToBirthday ==
    /\ loose # <<>>
    /\ last' = Call("days_to_birthday", <<>>, days_to_birthday(loose[1], today))
    /\ UNCHANGED <<field, loose, data, today, day>>

NextDate ==
    \/ Tick
    \/ NewBirthdayRecord
    \/ DaysToBirthday

SpecDate == Init /\ [][NextDate]_vars

----------------------------------------------------------------------------
(* Properties *)

PhonesAt(t) == RecAt(t).phones

\* the phones of record t after the step
PhonesAfter(t) == IF t = 0 THEN loose'[1].phones ELSE data'[t].rec.phones

AllPhones == UNION {PhonesAt(t) : t \in Targets}

\* C1: an edit_phone(old, new) that returns, called with old among the
\* record's phones and a valid new, leaves the phones with old replaced by
\* new and the others as they were.
C1_EditReplacesOld ==
    [][(/\ last'.op = "edit_phone"
        /\ last'.res.kind = "return"
        /\ last'.arg[2] \in PhonesAt(last'.arg[1])
        /\ isdigit(last'.arg[3]))
       => PhonesAfter(last'.arg[1]) =
              (PhonesAt(last'.arg[1]) \ {last'.arg[2]}) \cup {last'.arg[3]}]_vars

\* C2: edit_phone(old, new) returns the not-found message exactly when old
\* is not among the record's phones, and then leaves the phones unchanged.
C2_NotFoundIffAbsent ==
    [][last'.op = "edit_phone"
       => /\ (last'.res = Return("notfound"))
              <=> (last'.arg[2] \notin PhonesAt(last'.arg[1]))
          /\ (last'.arg[2] \notin PhonesAt(last'.arg[1]))
              => PhonesAfter(last'.arg[1]) = PhonesAt(last'.arg[1])]_vars

\* C3: every phone of every record is a non-empty string of digits.
C3_PhonesAreDigits == \A p \in AllPhones : isdigit(p)

\* C4: a Phone instance always holds a string of digits.
C4_PhoneHoldsDigits == field.ty = "Phone" => isdigit(field.val)

\* C5: every key of the address book is the name of the record stored
\* under it.
C5_KeyIsName ==
    \A i \in 1..Len(data) : data[i].key = Field_str(data[i].rec.name)

\* C6: after add_record(r), find_record of r's name returns a rendering
\* that contains the name and every phone of r.
C6_AddedIsFound ==
    last.op = "add_record"
    => /\ last.res.kind = "return"
       /\ last.arg[1] \in Keys(data)
       /\ \A order \in Orders(data[IndexOf(data, last.arg[1])].rec.phones) :
              LET found == find_record(data, last.arg[1], order)
              IN  /\ found.tag = "str"
                  /\ Contains(found.text, last.arg[1])
                  /\ \A p \in data[IndexOf(data, last.arg[1])].rec.phones :
                         Contains(found.text, p)

RECURSIVE Flatten(_)
Flatten(pages) ==
    IF Len(pages) = 0 THEN <<>> ELSE pages[1] \o Flatten(Tail(pages))

\* C7: show_all over N records yields ceil(N / page_size) groups, each of
\* page_size records but possibly the last, that together are the records
\* in insertion order, each once; over no record it yields nothing.
C7_PagesCoverBook ==
    last.op = "show_all"
    => LET pages == last.res.pages
           N == Len(data)
       IN  /\ Len(pages) = (N + page_size - 1) \div page_size
           /\ \A k \in 1..Len(pages) :
                  /\ Len(pages[k]) \in 1..page_size
                  /\ k < Len(pages) => Len(pages[k]) = page_size
           /\ \E orders \in OrdersOf(data) :
                  Flatten(pages) = [i \in 1..N |-> Record_str(data[i].rec, orders[i])]

\* C7 witness: six records are listed as a page of five and a page of one
C7_TwoPagesListed ==
    /\ last.op = "show_all"
    /\ Len(data) = page_size + 1
    /\ Len(last.res.pages) = 2
    /\ Len(last.res.pages[2]) = 1

\* C8: remove_record of a name that is not a key and remove_phone of a
\* phone the record does not have return the not-found message and change
\* neither the address book nor the record.
C8_AbsentRemovalIsNoOp ==
    [][/\ (last'.op = "remove_record" /\ last'.arg[1] \notin Keys(data))
           => (last'.res = Return("notfound") /\ data' = data /\ loose' = loose)
       /\ (last'.op = "remove_phone" /\ last'.arg[2] \notin PhonesAt(last'.arg[1]))
           => (last'.res = Return("notfound") /\ data' = data /\ loose' = loose)]_vars

\* C8 witness: a name that is no key was removed from a book that holds a
\* record with phones
C8_AbsentRemoved ==
    /\ last.op = "remove_record"
    /\ last.res = Return("notfound")
    /\ Len(data) > 0
    /\ last.arg[1] \notin Keys(data)
    /\ AllPhones # {}

RECURSIVE DaysUntil(_, _, _)
DaysUntil(a, m, d) ==
    IF a.month = m /\ a.day <= d /\ d <= DaysInMonth(a.year, a.month)
    THEN d - a.day
    ELSE (DaysInMonth(a.year, a.month) - a.day + 1)
         + DaysUntil(IF a.month < 12 THEN MkDate(a.year, a.month + 1, 1)
                     ELSE MkDate(a.year + 1, 1, 1), m, d)

\* the year days_to_birthday builds the next birthday in has no 29 February
NoSuchDay(now, b) ==
    /\ b.month = 2 /\ b.day = 29
    /\ \/ ~IsLeap(now.year)
       \/ DateLess(MkDate(now.year, 2, 29), now)

\* C10 as stated: with a birthday stored, days_to_birthday returns the
\* number of days from today to the next date with the birthday's month
\* and day, a non-negative integer.
C10_AlwaysCounts ==
    (last.op = "days_to_birthday" /\ loose[1].birthday # NoDate)
    => /\ last.res.kind = "return"
       /\ last.res.tag = "int"
       /\ last.res.num >= 0
       /\ last.res.num = DaysUntil(today, loose[1].birthday.month, loose[1].birthday.day)

\* C10 amended: days_to_birthday returns None without a birthday, raises
\* ValueError for a 29 February birthday when the year it builds the next
\* birthday in (this year, or the next one once 29 February is past) is
\* not a leap year, and otherwise returns the number of days from today to
\* the next date with the birthday's month and day.
C10_CountsUnlessNoSuchDay ==
    last.op = "days_to_birthday"
    => IF loose[1].birthday = NoDate THEN last.res = Return("None")
       ELSE IF NoSuchDay(today, loose[1].birthday) THEN last.res = Raise("ValueError")
       ELSE /\ last.res.kind = "return"
            /\ last.res.tag = "int"
            /\ last.res.num >= 0
            /\ last.res.num =
                   DaysUntil(today, loose[1].birthday.month, loose[1].birthday.day)

\* C10 witness: today 2024-12-30, birthday 01-02, three days
C10_WrappedCount ==
    /\ last.op = "days_to_birthday"
    /\ today = MkDate(2024, 12, 30)
    /\ loose[1].birthday = MkDate(2000, 1, 2)
    /\ last.res.num = 3

====
